---- MODULE Spec2Model ----
(***************************************************************************)
(* The event replay of bin/wc_analytics.py: DocumentState (a list of       *)
(* lines and a cursor), reconstruct_session (the replay loop and its named *)
(* checkpoints) and the part of analyze_session that feeds it.             *)
(*                                                                         *)
(* A Python str is a sequence of one-character strings; a Python list is a *)
(* sequence.  An operation that can raise returns [doc, exc], exc being    *)
(* "none" or the name of the exception.                                    *)
(***************************************************************************)
EXTENDS Integers, Sequences, FiniteSets, TLC

VARIABLES
    initial_content,  \* reconstruct_session's seed text
    doc,              \* the live DocumentState of reconstruct_session
    states,           \* the checkpoint map being built
    pc,               \* "loop", "returned" or "raised"
    exc,              \* the exception that ended the replay, or "none"
    n_events,         \* number of events iterated so far
    event,            \* the loop variable: the event iterated last
    h_pre,            \* history: buffer text at the most recent 's'/'pre' event
    h_pre_first,      \* history: buffer text at the first 's'/'pre' event
    h_end,            \* history: buffer text at the most recent 'end' event
    h_end_first,      \* history: buffer text at the first 'end' event
    data_events,      \* analyze_session: data['events'] as logged
    other_events,     \* a second log, a reordering of data_events
    an_pc,            \* analyze_session: "start" or "done"
    session,          \* analyze_session's outcome for data_events
    other_session,    \* analyze_session's outcome for other_events
    op,               \* the DocumentState method called last, with its arguments
    codec             \* a position, its encoding and the decoding of that

vars == <<initial_content, doc, states, pc, exc, n_events, event, h_pre, h_pre_first,
          h_end, h_end_first, data_events, other_events, an_pc, session,
          other_session, op, codec>>

replay_vars == <<initial_content, doc, states, pc, exc, n_events, event, h_pre,
                 h_pre_first, h_end, h_end_first>>

analyze_vars == <<data_events, other_events, an_pc, session, other_session>>

call_vars == <<op, codec>>

----------------------------------------------------------------------------
(* Python built-ins the code relies on *)

NL == "\n"
CR == "\r"

Min(a, b) == IF a < b THEN a ELSE b
Max(a, b) == IF a > b THEN a ELSE b

\* The offset a slice bound n denotes in a sequence of length len.
PyBound(n, len) == IF n < 0 THEN Max(0, len + n) ELSE Min(n, len)

\* s[:n] and s[n:]
PySliceTo(s, n) == SubSeq(s, 1, PyBound(n, Len(s)))
PySliceFrom(s, n) == SubSeq(s, PyBound(n, Len(s)) + 1, Len(s))

\* list[i] is defined (no IndexError) for -len <= i < len.
PyInRange(i, len) == -len <= i /\ i < len
PyPos(i, len) == IF i < 0 THEN i + len + 1 ELSE i + 1
PyAt(list, i) == list[PyPos(i, Len(list))]
PySet(list, i, x) == [list EXCEPT ![PyPos(i, Len(list))] = x]
PyDel(list, i) ==
    LET k == PyPos(i, Len(list))
    IN  SubSeq(list, 1, k - 1) \o SubSeq(list, k + 1, Len(list))
\* list.insert(i, x) never raises: the index is cut to the list's bounds.
PyInsert(list, i, x) ==
    LET k == PyBound(i, Len(list))
    IN  SubSeq(list, 1, k) \o <<x>> \o SubSeq(list, k + 1, Len(list))

\* s.split('\n')
RECURSIVE SplitNL(_)
SplitNL(s) ==
    IF \A j \in 1..Len(s) : s[j] # NL
    THEN <<s>>
    ELSE LET k == CHOOSE k \in 1..Len(s) :
                      s[k] = NL /\ \A j \in 1..(k - 1) : s[j] # NL
         IN  <<SubSeq(s, 1, k - 1)>> \o SplitNL(SubSeq(s, k + 1, Len(s)))

\* '\n'.join(lines)
RECURSIVE JoinNL(_)
JoinNL(lines) ==
    IF lines = <<>> THEN <<>>
    ELSE IF Len(lines) = 1 THEN lines[1]
    ELSE lines[1] \o <<NL>> \o JoinNL(Tail(lines))

Digits == {"0", "1", "2", "3", "4", "5", "6", "7", "8", "9"}
DigitVal(c) ==
    CASE c = "0" -> 0 [] c = "1" -> 1 [] c = "2" -> 2 [] c = "3" -> 3
      [] c = "4" -> 4 [] c = "5" -> 5 [] c = "6" -> 6 [] c = "7" -> 7
      [] c = "8" -> 8 [] c = "9" -> 9

\* int(s) of a string of digits
RECURSIVE IntOf(_)
IntOf(s) ==
    IF s = <<>> THEN 0
    ELSE 10 * IntOf(SubSeq(s, 1, Len(s) - 1)) + DigitVal(s[Len(s)])

\* The first index >= i of s that holds no digit (Len(s) + 1 if none).
RECURSIVE DigitsEnd(_, _)
DigitsEnd(s, i) ==
    IF i <= Len(s) /\ s[i] \in Digits THEN DigitsEnd(s, i + 1) ELSE i

\* s holds the literal lit at index i.
HasAt(s, i, lit) ==
    i + Len(lit) - 1 <= Len(s) /\ SubSeq(s, i, i + Len(lit) - 1) = lit

StartsWith(s, c) == Len(s) >= 1 /\ s[1] = c
EndsWith(s, c) == Len(s) >= 1 /\ s[Len(s)] = c

NoMatch == -1

\* re.match(r'\[(\d+) <word>s?\]', s): the pattern is matched at the start of
\* s and need not reach its end.  int(group(1)), or NoMatch.
ReMatchCount(s, word) ==
    IF ~StartsWith(s, "[") THEN NoMatch
    ELSE LET j == DigitsEnd(s, 2)
             k == j + Len(word)
         IN  IF j = 2 \/ ~HasAt(s, j, word) THEN NoMatch
             ELSE IF HasAt(s, k, <<"s", "]">>) \/ HasAt(s, k, <<"]">>)
                  THEN IntOf(SubSeq(s, 2, j - 1))
                  ELSE NoMatch

W_new_line == <<" ", "n", "e", "w", " ", "l", "i", "n", "e">>
W_deleted_line == <<" ", "d", "e", "l", "e", "t", "e", "d", " ", "l", "i", "n", "e">>

----------------------------------------------------------------------------
(* Position codec *)

\* Variant of parse_position that keeps two digits for the column.
parse_position_two_digits(pos) == <<pos \div 100, pos % 100>>

parse_position(pos) == <<pos \div 1000, pos % 1000>>

encode_position(line, col) == line * 1000 + col

----------------------------------------------------------------------------
(* class DocumentState *)

Ok(d) == [doc |-> d, exc |-> "none"]
Raise(d, e) == [doc |-> d, exc |-> e]

DocumentState(content) ==
    [lines |-> IF content # <<>> THEN SplitNL(content) ELSE << <<>> >>,
     cursor_line |-> 1,
     cursor_col |-> 0]

get_content(d) == JoinNL(d.lines)

set_cursor(d, line, col) ==
    LET cl == Max(1, Min(line, Len(d.lines)))
        d1 == [d EXCEPT !.cursor_line = cl]
    IN  IF ~PyInRange(cl - 1, Len(d.lines)) THEN Raise(d1, "IndexError")
        ELSE LET line_len == Len(PyAt(d.lines, cl - 1))
             IN  Ok([d1 EXCEPT !.cursor_col = Max(0, Min(col, line_len))])

\* Variant of BulkInsert that puts the new lines before the current line.
BulkInsert_before(d, line_idx, new_line_count) ==
    LET RECURSIVE Ins(_, _)
        Ins(ls, k) == IF k = 0 THEN ls
                      ELSE Ins(PyInsert(ls, line_idx, <<>>), k - 1)
    IN  [d EXCEPT !.lines = Ins(d.lines, new_line_count),
                  !.cursor_line = d.cursor_line + 1,
                  !.cursor_col = 0]

\* lines 56-67: the '[N new lines]' marker
BulkInsert(d, line_idx, new_line_count) ==
    LET RECURSIVE Ins(_, _)
        Ins(ls, k) == IF k = 0 THEN ls
                      ELSE Ins(PyInsert(ls, line_idx + 1, <<>>), k - 1)
    IN  [d EXCEPT !.lines = Ins(d.lines, new_line_count),
                  !.cursor_line = d.cursor_line + 1,
                  !.cursor_col = 0]

\* Variant of SplitLine that splits the current line before its first character.
SplitLine_at_start(d, line_idx, line) ==
    [d EXCEPT !.lines = PyInsert(PySet(d.lines, line_idx, <<>>),
                                 line_idx + 1, line),
              !.cursor_line = d.cursor_line + 1,
              !.cursor_col = 0]

\* lines 69-77: a line terminator splits the current line at the cursor
SplitLine(d, line_idx, line) ==
    LET before == PySliceTo(line, d.cursor_col)
        after == PySliceFrom(line, d.cursor_col)
    IN  [d EXCEPT !.lines = PyInsert(PySet(d.lines, line_idx, before),
                                     line_idx + 1, after),
                  !.cursor_line = d.cursor_line + 1,
                  !.cursor_col = 0]

\* lines 78-82: literal text is spliced in at the cursor
InsertText(d, line_idx, line, content) ==
    LET new_line == PySliceTo(line, d.cursor_col) \o content
                    \o PySliceFrom(line, d.cursor_col)
    IN  [d EXCEPT !.lines = PySet(d.lines, line_idx, new_line),
                  !.cursor_col = d.cursor_col + Len(content)]

IsNewLineMarker(content) ==
    /\ StartsWith(content, "[") /\ EndsWith(content, "]")
    /\ ReMatchCount(content, W_new_line) # NoMatch

apply_keystroke(d, content) ==
    IF content = <<>> THEN Ok(d)
    ELSE LET line_idx == d.cursor_line - 1
         IN  IF ~PyInRange(line_idx, Len(d.lines)) THEN Raise(d, "IndexError")
             ELSE LET line == PyAt(d.lines, line_idx)
                  IN  IF IsNewLineMarker(content)
                      THEN Ok(BulkInsert(d, line_idx,
                                         ReMatchCount(content, W_new_line)))
                      ELSE IF content = <<NL>> \/ content = <<CR, NL>>
                      THEN Ok(SplitLine(d, line_idx, line))
                      ELSE Ok(InsertText(d, line_idx, line, content))

\* lines 97-99: del self.lines[line_idx], as often as range() was told
RECURSIVE DelLoop(_, _, _)
DelLoop(ls, line_idx, k) ==
    IF k <= 0 THEN [lines |-> ls, exc |-> "none"]
    ELSE IF line_idx < Len(ls)
         THEN IF PyInRange(line_idx, Len(ls))
              THEN DelLoop(PyDel(ls, line_idx), line_idx, k - 1)
              ELSE [lines |-> ls, exc |-> "IndexError"]
         ELSE DelLoop(ls, line_idx, k - 1)

\* lines 95-104: the '[N deleted lines]' marker
BulkDelete(d, line_idx, del_count) ==
    LET r == DelLoop(d.lines, line_idx,
                     Min(del_count, Len(d.lines) - line_idx))
        d1 == [d EXCEPT !.lines = r.lines]
    IN  IF r.exc # "none" THEN Raise(d1, r.exc)
        ELSE IF line_idx >= Len(d1.lines)
        THEN Ok([d1 EXCEPT !.cursor_line = Len(d1.lines),
                           !.cursor_col = IF d1.lines # <<>>
                                          THEN Len(PyAt(d1.lines, -1))
                                          ELSE 0])
        ELSE Ok(d1)

\* lines 108-112: backspace
Backspace(d, line_idx, line) ==
    LET new_line == PySliceTo(line, d.cursor_col - 1)
                    \o PySliceFrom(line, d.cursor_col)
    IN  [d EXCEPT !.lines = PySet(d.lines, line_idx, new_line),
                  !.cursor_col = d.cursor_col - 1]

\* lines 113-119: join with the previous line
JoinPrevious(d, line_idx, line) ==
    LET prev_line == PyAt(d.lines, line_idx - 1)
    IN  [d EXCEPT !.lines = PyDel(PySet(d.lines, line_idx - 1,
                                        prev_line \o line), line_idx),
                  !.cursor_line = d.cursor_line - 1,
                  !.cursor_col = Len(prev_line)]

IsDeletedLinesMarker(content) ==
    /\ StartsWith(content, "[") /\ EndsWith(content, "]")
    /\ ReMatchCount(content, W_deleted_line) # NoMatch

\* lines 106-119: a deletion that is no marker
DeleteChar(d, line_idx) ==
    IF ~PyInRange(line_idx, Len(d.lines)) THEN Raise(d, "IndexError")
    ELSE LET line == PyAt(d.lines, line_idx)
         IN  IF d.cursor_col > 0 THEN Ok(Backspace(d, line_idx, line))
             ELSE IF d.cursor_line > 1
                  THEN IF PyInRange(line_idx - 1, Len(d.lines))
                       THEN Ok(JoinPrevious(d, line_idx, line))
                       ELSE Raise(d, "IndexError")
                  ELSE Ok(d)

\* Variant of apply_deletion without the guard of lines 86-87.
apply_deletion_unguarded(d, content) ==
    LET line_idx == d.cursor_line - 1
    IN  IF IsDeletedLinesMarker(content)
        THEN BulkDelete(d, line_idx, ReMatchCount(content, W_deleted_line))
        ELSE DeleteChar(d, line_idx)

apply_deletion(d, content) ==
    IF content = <<>> THEN Ok(d)
    ELSE LET line_idx == d.cursor_line - 1
         IN  IF IsDeletedLinesMarker(content)
             THEN BulkDelete(d, line_idx,
                             ReMatchCount(content, W_deleted_line))
             ELSE DeleteChar(d, line_idx)

----------------------------------------------------------------------------
(* reconstruct_session *)

S_pre == <<"p", "r", "e">>

\* ev.get(key, default)
Get(ev, key, default) == IF key \in DOMAIN ev THEN ev[key] ELSE default

\* A checkpoint is a DocumentState of its own, or (line 153) the live doc.
Copy(d) == [alias |-> FALSE, doc |-> d]
Alias == [alias |-> TRUE, doc |-> DocumentState(<<>>)]
Deref(cp, live) == IF cp.alias THEN live ELSE cp.doc

\* states[name] = cp
Store(sts, name, cp) ==
    [n \in DOMAIN sts \cup {name} |-> IF n = name THEN cp ELSE sts[n]]

\* line 127
InitialStates(content) ==
    [n \in {"initial"} |-> Copy(DocumentState(content))]

\* Variant of PreSaveCheckpoint that stores the live doc itself.
PreSaveCheckpoint_aliased(d) == Alias

\* lines 146 and 149: a checkpoint is rebuilt from the buffer's text
PreSaveCheckpoint(d) == Copy(DocumentState(get_content(d)))
FinalCheckpoint(d) == Copy(DocumentState(get_content(d)))

\* Variant of MoveCursor that leaves the cursor where it is.
MoveCursor_never(d, pos) == Ok(d)

\* lines 135-137: the cursor follows a position that is > 0
MoveCursor(d, pos) ==
    IF pos > 0
    THEN set_cursor(d, parse_position(pos)[1], parse_position(pos)[2])
    ELSE Ok(d)

\* Variant of IsPreSave that takes every 's' event for a snapshot.
IsPreSave_any_content(event_type, content) == event_type = "s"

\* line 144
IsPreSave(event_type, content) == event_type = "s" /\ content = S_pre

\* Variant of Dispatch that takes every type it does not know for 'end'.
Dispatch_unknown_as_end(d, sts, event_type, content) ==
    IF event_type = "k"
    THEN LET r == apply_keystroke(d, content)
         IN  [doc |-> r.doc, states |-> sts, exc |-> r.exc]
    ELSE IF event_type = "d"
    THEN LET r == apply_deletion(d, content)
         IN  [doc |-> r.doc, states |-> sts, exc |-> r.exc]
    ELSE IF IsPreSave(event_type, content)
    THEN [doc |-> d, states |-> Store(sts, "pre_save", PreSaveCheckpoint(d)),
          exc |-> "none"]
    ELSE IF event_type # "s"
    THEN [doc |-> d, states |-> Store(sts, "final", FinalCheckpoint(d)),
          exc |-> "none"]
    ELSE [doc |-> d, states |-> sts, exc |-> "none"]

\* lines 140-149: the event is applied; [doc, states, exc]
Dispatch(d, sts, event_type, content) ==
    IF event_type = "k"
    THEN LET r == apply_keystroke(d, content)
         IN  [doc |-> r.doc, states |-> sts, exc |-> r.exc]
    ELSE IF event_type = "d"
    THEN LET r == apply_deletion(d, content)
         IN  [doc |-> r.doc, states |-> sts, exc |-> r.exc]
    ELSE IF IsPreSave(event_type, content)
    THEN [doc |-> d, states |-> Store(sts, "pre_save", PreSaveCheckpoint(d)),
          exc |-> "none"]
    ELSE IF event_type = "end"
    THEN [doc |-> d, states |-> Store(sts, "final", FinalCheckpoint(d)),
          exc |-> "none"]
    ELSE [doc |-> d, states |-> sts, exc |-> "none"]

\* lines 129-149: one iteration of the loop over the events
LoopBody(d, sts, ev) ==
    IF "type" \notin DOMAIN ev
    THEN [doc |-> d, states |-> sts, exc |-> "KeyError"]
    ELSE LET moved == MoveCursor(d, Get(ev, "pos", 0))
         IN  IF moved.exc # "none"
             THEN [doc |-> moved.doc, states |-> sts, exc |-> moved.exc]
             ELSE Dispatch(moved.doc, sts, ev["type"],
                           Get(ev, "content", <<>>))

\* Variant of EnsureFinal that stores the live doc whatever was captured.
EnsureFinal_always(sts) == Store(sts, "final", Alias)

\* lines 151-155
EnsureFinal(sts) ==
    IF "final" \notin DOMAIN sts THEN Store(sts, "final", Alias) ELSE sts

----------------------------------------------------------------------------
(* The inputs *)

MaxEvents == 3

S_x == <<"x">>
S_post == <<"p", "o", "s", "t">>
S_0_new_lines == <<"[", "0", " ", "n", "e", "w", " ", "l", "i", "n", "e", "s", "]">>
S_2_new_lines == <<"[", "2", " ", "n", "e", "w", " ", "l", "i", "n", "e", "s", "]">>
S_0_deleted_lines ==
    <<"[", "0", " ", "d", "e", "l", "e", "t", "e", "d", " ", "l", "i", "n", "e", "s", "]">>
S_1_deleted_lines ==
    <<"[", "1", " ", "d", "e", "l", "e", "t", "e", "d", " ", "l", "i", "n", "e", "s", "]">>
S_3_deleted_lines ==
    <<"[", "3", " ", "d", "e", "l", "e", "t", "e", "d", " ", "l", "i", "n", "e", "s", "]">>

SeedTexts == {<<>>, <<"a", "b">>, <<"a", "b", NL, "c", "d">>}

KeyContents == {<<>>, S_x, <<NL>>, S_0_new_lines, S_2_new_lines}
DelContents == {<<>>, S_x, S_0_deleted_lines, S_1_deleted_lines, S_3_deleted_lines}
Positions == {encode_position(1, 1), encode_position(2, 0), encode_position(9, 999)}

EditEvents ==
    [type : {"k"}, content : KeyContents] \cup [type : {"d"}, content : DelContents]
EditEventsAt ==
    [type : {"k"}, pos : {encode_position(2, 0)}, content : KeyContents]
        \cup [type : {"d"}, pos : {encode_position(2, 0)}, content : DelContents]
MarkerEvents == [type : {"s"}, content : {S_pre, S_post}] \cup {[type |-> "end"]}
OtherEvents == [type : {"c"}, pos : Positions] \cup {[type |-> "m"]}
UntypedEvents == {[content |-> S_x], [pos |-> encode_position(1, 1)]}

Events == EditEvents \cup EditEventsAt \cup MarkerEvents \cup OtherEvents
              \cup UntypedEvents

----------------------------------------------------------------------------
(* reconstruct_session, one event at a time *)

NoText == [set |-> FALSE, text |-> <<>>]
TextOf(d) == [set |-> TRUE, text |-> get_content(d)]

\* What the history variables record: the event as the log names it.
SnapshotMarker(e) ==
    Get(e, "type", "") = "s" /\ Get(e, "content", <<>>) = S_pre
EndMarker(e) == Get(e, "type", "") = "end"

\* Before the first iteration the loop variable is unbound.
NoEvent == [unbound |-> TRUE]

\* A checkpoint map without entries.
NoStates == [n \in {} |-> DocumentState(<<>>)]

NoSession == [kind |-> "idle", exc |-> "none", states |-> NoStates]

ReplayInit ==
    /\ initial_content \in SeedTexts
    /\ doc = DocumentState(initial_content)
    /\ states = InitialStates(initial_content)
    /\ pc = "loop"
    /\ exc = "none"
    /\ n_events = 0
    /\ event = NoEvent
    /\ h_pre = NoText /\ h_pre_first = NoText
    /\ h_end = NoText /\ h_end_first = NoText

Iterate(e) ==
    /\ pc = "loop"
    /\ n_events < MaxEvents
    /\ event' = e
    /\ LET r == LoopBody(doc, states, e)
           ok == r.exc = "none"
       IN  /\ doc' = r.doc
           /\ states' = r.states
           /\ exc' = r.exc
           /\ pc' = IF ok THEN "loop" ELSE "raised"
           /\ h_pre' = IF ok /\ SnapshotMarker(e) THEN TextOf(r.doc) ELSE h_pre
           /\ h_pre_first' = IF ok /\ SnapshotMarker(e) /\ ~h_pre_first.set
                             THEN TextOf(r.doc) ELSE h_pre_first
           /\ h_end' = IF ok /\ EndMarker(e) THEN TextOf(r.doc) ELSE h_end
           /\ h_end_first' = IF ok /\ EndMarker(e) /\ ~h_end_first.set
                             THEN TextOf(r.doc) ELSE h_end_first
    /\ n_events' = n_events + 1
    /\ UNCHANGED <<initial_content, analyze_vars, call_vars>>

Return ==
    /\ pc = "loop"
    /\ states' = EnsureFinal(states)
    /\ pc' = "returned"
    /\ UNCHANGED <<initial_content, doc, exc, n_events, event, h_pre, h_pre_first,
                   h_end, h_end_first, analyze_vars, call_vars>>

AnalyzeIdle ==
    /\ data_events = <<>> /\ other_events = <<>>
    /\ an_pc = "idle"
    /\ session = NoSession /\ other_session = NoSession

\* No method has been called from outside the replay, no position encoded.
NoOp == [name |-> "none", content |-> <<>>, line |-> 0, col |-> 0,
         before |-> DocumentState(<<>>)]
NoCodec == [stage |-> "idle", line |-> 0, col |-> 0, pos |-> 0, back |-> <<0, 0>>]
CallsIdle == op = NoOp /\ codec = NoCodec

Init == ReplayInit /\ AnalyzeIdle /\ CallsIdle

Next == (\E e \in Events : Iterate(e)) \/ Return

Spec == Init /\ [][Next]_vars

\* The text of a checkpoint of the map, as a caller reads it.
Text(name) == get_content(Deref(states[name], doc))

----------------------------------------------------------------------------
(* reconstruct_session as a function, and analyze_session around it *)

MaxLog == 3

\* lines 129-155: the loop over the events, then the return
RECURSIVE Replay(_, _, _)
Replay(d, sts, evs) ==
    IF evs = <<>>
    THEN [doc |-> d, states |-> EnsureFinal(sts), exc |-> "none"]
    ELSE LET r == LoopBody(d, sts, Head(evs))
         IN  IF r.exc # "none" THEN r
             ELSE Replay(r.doc, r.states, Tail(evs))

reconstruct_session(events, content) ==
    Replay(DocumentState(content), InitialStates(content), events)

\* e goes behind every event of the sorted list whose dt is not greater.
InsertByDt(sorted, e) ==
    LET k == Cardinality({i \in 1..Len(sorted) : sorted[i].dt <= e.dt})
    IN  SubSeq(sorted, 1, k) \o <<e>> \o SubSeq(sorted, k + 1, Len(sorted))

\* Variant of SortedByDt that leaves the list as it was logged.
SortedByDt_unsorted(evs) == evs

\* line 220: sorted(data['events'], key=lambda e: e['dt']), a stable sort
RECURSIVE SortedByDt(_)
SortedByDt(evs) ==
    IF evs = <<>> THEN <<>>
    ELSE InsertByDt(SortedByDt(SubSeq(evs, 1, Len(evs) - 1)), evs[Len(evs)])

\* The checkpoints of a returned map, each as the DocumentState it names.
Snapshots(r) == [n \in DOMAIN r.states |-> Deref(r.states[n], r.doc)]

\* Variant of analyze_session that replays a log without events as well.
analyze_session_replays_empty(log, content) ==
    LET r == reconstruct_session(SortedByDt(log), content)
    IN  IF r.exc # "none"
        THEN [kind |-> "raised", exc |-> r.exc, states |-> NoStates]
        ELSE [kind |-> "report", exc |-> "none", states |-> Snapshots(r)]

\* lines 220-244: the outcome is None, an exception that nothing catches, or
\* a report computed from the checkpoints
analyze_session(log, content) ==
    LET events == SortedByDt(log)
    IN  IF events = <<>>
        THEN [kind |-> "None", exc |-> "none", states |-> NoStates]
        ELSE LET r == reconstruct_session(events, content)
             IN  IF r.exc # "none"
                 THEN [kind |-> "raised", exc |-> r.exc, states |-> NoStates]
                 ELSE [kind |-> "report", exc |-> "none",
                       states |-> Snapshots(r)]

LogEvents ==
    [type : {"k"}, dt : {1, 2}, content : {S_x, <<NL>>, S_0_new_lines}]
        \cup [type : {"s"}, dt : {1}, content : {S_pre}]
        \cup [dt : {1, 2}, content : {S_x}]

Logs == UNION {[1..n -> LogEvents] : n \in 0..MaxLog}

\* The lists that hold the events of log in another order.
Reorderings(log) ==
    {[i \in 1..Len(log) |-> log[p[i]]] : p \in Permutations(1..Len(log))}

AnalyzeInit ==
    /\ initial_content \in SeedTexts
    /\ doc = DocumentState(initial_content)
    /\ states = InitialStates(initial_content)
    /\ pc = "idle"
    /\ exc = "none"
    /\ n_events = 0
    /\ event = NoEvent
    /\ h_pre = NoText /\ h_pre_first = NoText
    /\ h_end = NoText /\ h_end_first = NoText
    /\ data_events \in Logs
    /\ other_events \in Reorderings(data_events)
    /\ an_pc = "start"
    /\ session = NoSession /\ other_session = NoSession
    /\ CallsIdle

Analyze ==
    /\ an_pc = "start"
    /\ session' = analyze_session(data_events, initial_content)
    /\ other_session' = analyze_session(other_events, initial_content)
    /\ an_pc' = "done"
    /\ UNCHANGED <<replay_vars, data_events, other_events, call_vars>>

SpecAnalyze == AnalyzeInit /\ [][Analyze]_vars

----------------------------------------------------------------------------
(* reconstruct_session over events with and without positions *)

PosOptions ==
    {0, encode_position(1, 1), encode_position(2, 1), encode_position(9, 999)}

PosEvents ==
    {[type |-> "k", content |-> c] : c \in {S_x, <<NL>>, S_0_new_lines}}
    \cup {[type |-> "k", pos |-> p, content |-> c] :
              p \in PosOptions, c \in {S_x, <<NL>>}}
    \cup {[type |-> "d", content |-> c] : c \in {S_x, S_3_deleted_lines}}
    \cup {[type |-> "d", pos |-> p, content |-> S_x] : p \in PosOptions}
    \cup {[type |-> "c", pos |-> p] : p \in PosOptions \ {0}}

PosNext == (\E e \in PosEvents : Iterate(e)) \/ Return

SpecPos == Init /\ [][PosNext]_vars

----------------------------------------------------------------------------
(* DocumentState called method by method *)

MaxOps == 3

S_Hi == <<"H", "i">>
S_a_NL_b == <<"a", NL, "b">>
S_1_new_line == <<"[", "1", " ", "n", "e", "w", " ", "l", "i", "n", "e", "]">>
S_3_new_lines == <<"[", "3", " ", "n", "e", "w", " ", "l", "i", "n", "e", "s", "]">>
S_x_new_lines == <<"[", "x", " ", "n", "e", "w", " ", "l", "i", "n", "e", "s", "]">>
S_neg_new_lines == <<"[", "-", "1", " ", "n", "e", "w", " ", "l", "i", "n", "e", "s", "]">>
S_1_new_lines_more == <<"[", "1", " ", "n", "e", "w", " ", "l", "i", "n", "e", "s", "]", " ", "[", "x", "]">>
S_1_new_lines_x == <<"[", "1", " ", "n", "e", "w", " ", "l", "i", "n", "e", "s", "]", "x">>
S_1_deleted_line == <<"[", "1", " ", "d", "e", "l", "e", "t", "e", "d", " ", "l", "i", "n", "e", "]">>
S_2_deleted_lines == <<"[", "2", " ", "d", "e", "l", "e", "t", "e", "d", " ", "l", "i", "n", "e", "s", "]">>
S_x_deleted_lines == <<"[", "x", " ", "d", "e", "l", "e", "t", "e", "d", " ", "l", "i", "n", "e", "s", "]">>
S_neg_deleted_lines == <<"[", "-", "1", " ", "d", "e", "l", "e", "t", "e", "d", " ", "l", "i", "n", "e", "s", "]">>
S_1_deleted_lines_more == <<"[", "1", " ", "d", "e", "l", "e", "t", "e", "d", " ", "l", "i", "n", "e", "s", "]", " ", "[", "x", "]">>

OpSeeds ==
    {<<>>, <<"X">>, <<"a", "b">>, <<"a", "b", NL, "c", "d">>,
     <<"a", NL, "b", "c", NL, "d">>}

KeyOpContents ==
    {<<>>, S_x, S_Hi, <<NL>>, <<CR, NL>>, S_0_new_lines, S_1_new_line,
     S_3_new_lines, S_x_new_lines, S_neg_new_lines, S_1_new_lines_more,
     S_1_new_lines_x, S_1_deleted_lines, S_a_NL_b}
DelOpContents ==
    {<<>>, S_x, S_0_deleted_lines, S_1_deleted_line, S_2_deleted_lines,
     S_3_deleted_lines, S_x_deleted_lines, S_neg_deleted_lines,
     S_1_deleted_lines_more, S_2_new_lines}
CursorLines == {0, 1, 2, 3, 9}
CursorCols == {0, 1, 2, 999}

OpsInit ==
    /\ initial_content \in OpSeeds
    /\ doc = DocumentState(initial_content)
    /\ states = InitialStates(initial_content)
    /\ pc = "calls"
    /\ exc = "none"
    /\ n_events = 0
    /\ event = NoEvent
    /\ h_pre = NoText /\ h_pre_first = NoText
    /\ h_end = NoText /\ h_end_first = NoText
    /\ AnalyzeIdle
    /\ CallsIdle

\* The call is made on doc; r is what it does. op keeps the call and the
\* buffer it was made on.
Call(o, r) ==
    /\ pc = "calls"
    /\ n_events < MaxOps
    /\ op' = [name |-> o.name, content |-> o.content, line |-> o.line,
              col |-> o.col, before |-> doc]
    /\ doc' = r.doc
    /\ exc' = r.exc
    /\ pc' = IF r.exc = "none" THEN "calls" ELSE "raised"
    /\ n_events' = n_events + 1
    /\ UNCHANGED <<initial_content, states, event, h_pre, h_pre_first, h_end,
                   h_end_first, analyze_vars, codec>>

CallSetCursor(line, col) ==
    Call([name |-> "set_cursor", content |-> <<>>, line |-> line, col |-> col],
         set_cursor(doc, line, col))

CallKeystroke(content) ==
    Call([name |-> "apply_keystroke", content |-> content, line |-> 0, col |-> 0],
         apply_keystroke(doc, content))

CallDeletion(content) ==
    Call([name |-> "apply_deletion", content |-> content, line |-> 0, col |-> 0],
         apply_deletion(doc, content))

OpsNext ==
    \/ \E line \in CursorLines, col \in CursorCols : CallSetCursor(line, col)
    \/ \E content \in KeyOpContents : CallKeystroke(content)
    \/ \E content \in DelOpContents : CallDeletion(content)

SpecOps == OpsInit /\ [][OpsNext]_vars

----------------------------------------------------------------------------
(* The position codec on its own *)

MaxCodecLine == 3
MaxCodecCol == 1100

CodecInit ==
    /\ initial_content = <<>>
    /\ doc = DocumentState(initial_content)
    /\ states = InitialStates(initial_content)
    /\ pc = "idle"
    /\ exc = "none"
    /\ n_events = 0
    /\ event = NoEvent
    /\ h_pre = NoText /\ h_pre_first = NoText
    /\ h_end = NoText /\ h_end_first = NoText
    /\ AnalyzeIdle
    /\ op = NoOp
    /\ \E line \in 0..MaxCodecLine, col \in 0..MaxCodecCol :
           codec = [NoCodec EXCEPT !.stage = "start", !.line = line, !.col = col]

Encode ==
    /\ codec.stage = "start"
    /\ codec' = [codec EXCEPT !.stage = "encoded",
                              !.pos = encode_position(codec.line, codec.col)]
    /\ UNCHANGED <<replay_vars, analyze_vars, op>>

Decode ==
    /\ codec.stage = "encoded"
    /\ codec' = [codec EXCEPT !.stage = "decoded",
                              !.back = parse_position(codec.pos)]
    /\ UNCHANGED <<replay_vars, analyze_vars, op>>

SpecCodec == CodecInit /\ [][Encode \/ Decode]_vars

----------------------------------------------------------------------------
(* The cursor and the line count *)

Live == pc \in {"loop", "returned"}

CursorInBounds(d) ==
    /\ 1 <= d.cursor_line /\ d.cursor_line <= Len(d.lines)
    /\ 0 <= d.cursor_col /\ d.cursor_col <= Len(d.lines[d.cursor_line])

\* C1: after every set_cursor, insert and delete, bulk markers of any count
\* included, 1 <= cursor.line <= count(lines) and
\* 0 <= cursor.column <= length(lines[cursor.line]).
C1_CursorAlwaysInBounds == Live => CursorInBounds(doc)

\* C2: the buffer holds at least one line in every state, also after a bulk
\* delete of every line.
C2_LineCountAtLeastOne == Live => Len(doc.lines) >= 1

\* C3: when every event has a type no operation fails, so a replay can only
\* abort on an event that lacks its type (KeyError on event['type']).
C3_OnlyMissingTypeAborts == pc = "raised" => exc = "KeyError"

----------------------------------------------------------------------------
(* The checkpoints *)

\* C4 as claimed: once a checkpoint is captured its text never changes,
\* whatever events follow.
C4_CapturedTextNeverChanges ==
    [][\A n \in DOMAIN states \cap {"initial", "pre_save"} :
           Text(n)' = Text(n)]_vars

\* C4 as amended: 'initial' always reads the seed text, and 'pre_save' reads
\* the buffer text at the most recent snapshot marker, whatever edits followed
\* it; only a further snapshot marker replaces it.
C4_CheckpointsKeepCapturedText ==
    /\ Text("initial") = initial_content
    /\ "pre_save" \in DOMAIN states =>
           h_pre.set /\ Text("pre_save") = h_pre.text

C4_Witness ==
    /\ Live /\ "pre_save" \in DOMAIN states
    /\ get_content(doc) # h_pre.text
    /\ get_content(doc) # initial_content

\* C5: a returned checkpoint set holds 'initial' and 'final', holds 'pre_save'
\* exactly when an event of type 's' with content 'pre' was in the list, and
\* holds no other name.
C5_CheckpointNames ==
    pc = "returned" =>
        /\ DOMAIN states \subseteq {"initial", "pre_save", "final"}
        /\ "initial" \in DOMAIN states /\ "final" \in DOMAIN states
        /\ "pre_save" \in DOMAIN states <=> h_pre.set

C5_Witness ==
    /\ pc = "returned" /\ h_pre.set
    /\ DOMAIN states = {"initial", "pre_save", "final"}

\* C6: 'final' reads the buffer text at the last end marker when there was
\* one, whatever edits followed it, and the buffer text after the last event
\* otherwise.
C6_FinalText ==
    pc = "returned" =>
        Text("final") = IF h_end.set THEN h_end.text ELSE get_content(doc)

C6_Witness ==
    /\ pc = "returned" /\ h_end.set
    /\ h_end.text # get_content(doc)

----------------------------------------------------------------------------
(* The log as a whole *)

SessionText(ses, name) == get_content(ses.states[name])

ReturnsSeedTwice(ses, content) ==
    /\ ses.kind = "report"
    /\ DOMAIN ses.states = {"initial", "final"}
    /\ SessionText(ses, "initial") = content
    /\ SessionText(ses, "final") = content

Untyped(log) == \E i \in 1..Len(log) : "type" \notin DOMAIN log[i]

\* C8: a log that holds an event without type, at whatever index, ends in the
\* failure for a malformed event (KeyError on event['type']) and yields no
\* checkpoint set.
C8_UntypedEventIsMalformedEvent ==
    an_pc = "done" /\ Untyped(data_events) =>
        /\ session.kind = "raised" /\ session.exc = "KeyError"
        /\ session.states = NoStates

EventsAt(log, t) == SelectSeq(log, LAMBDA e : e.dt = t)
TiesAgree(a, b) == \A t \in {1, 2} : EventsAt(a, t) = EventsAt(b, t)

\* C9: two logs that hold the same events and agree on the order of the
\* events of equal timestamp have the same outcome: the events are applied by
\* ascending timestamp, ties in the order logged.
C9_OrderOfLogIrrelevant ==
    an_pc = "done" /\ TiesAgree(data_events, other_events) =>
        session = other_session

C9_Witness ==
    /\ an_pc = "done" /\ TiesAgree(data_events, other_events)
    /\ data_events # other_events
    /\ session.kind = "report"
    /\ "pre_save" \in DOMAIN session.states
    /\ SessionText(session, "pre_save") # SessionText(session, "final")

----------------------------------------------------------------------------
(* Scenario D *)

ScenarioD_doc ==
    [lines |-> << <<"a", "b">>, <<"c", "d">> >>, cursor_line |-> 2, cursor_col |-> 0]
ScenarioD_joined ==
    [lines |-> << <<"a", "b", "c", "d">> >>, cursor_line |-> 1, cursor_col |-> 2]

\* The step iterates a deletion event that carries no position.
DeletionStep(content) ==
    /\ pc = "loop" /\ n_events' = n_events + 1
    /\ event' = [type |-> "d", content |-> content]

\* C10 as claimed: with lines ["ab","cd"] and the cursor at (2,0), a deletion
\* event with empty content joins the lines to ["abcd"], cursor (1,2).
C10_EmptyDeletionJoins ==
    [][doc = ScenarioD_doc /\ DeletionStep(<<>>) =>
           pc' = "loop" /\ doc' = ScenarioD_joined]_vars

\* C10 as amended: there a deletion event with empty content changes neither
\* the lines nor the cursor; a deletion event whose content is "x" joins the
\* lines to ["abcd"], cursor (1,2).
C10_ScenarioD ==
    [][/\ doc = ScenarioD_doc /\ DeletionStep(<<>>) =>
              pc' = "loop" /\ doc' = ScenarioD_doc
       /\ doc = ScenarioD_doc /\ DeletionStep(S_x) =>
              pc' = "loop" /\ doc' = ScenarioD_joined]_vars

C10_Witness ==
    /\ pc = "loop" /\ doc = ScenarioD_doc
    /\ event = [type |-> "d", content |-> <<>>]

----------------------------------------------------------------------------
(* The bulk grammar *)

\* The whole of s is "[" digits word "]" or "[" digits word "s]".
FullMarker(s, word) ==
    /\ Len(s) >= 1 /\ s[1] = "["
    /\ \E j \in 3..Len(s) :
           /\ \A i \in 2..(j - 1) : s[i] \in Digits
           /\ SubSeq(s, j, Len(s)) \in {word \o <<"]">>, word \o <<"s", "]">>}

\* The step is one call of the method on a buffer that holds a line, with the
\* cursor on that line.
CallStep(name) ==
    /\ pc = "calls" /\ n_events' = n_events + 1
    /\ CursorInBounds(doc)
    /\ op'.name = name

\* C11: content that is not, as a whole, '[<N> new line(s)]' (insert) or
\* '[<N> deleted line(s)]' (delete) with N a non-negative integer is never an
\* error and takes the literal insert / single-character delete, not the marker
\* path; the line terminators and the empty content have paths of their own.
C11_OnlyWholeMarkersAreBulk ==
    [][/\ ( /\ CallStep("apply_keystroke")
            /\ op'.content \notin {<<>>, <<NL>>, <<CR, NL>>}
            /\ ~FullMarker(op'.content, W_new_line) )
          => /\ exc' = "none"
             /\ doc' = InsertText(doc, doc.cursor_line - 1,
                                  doc.lines[doc.cursor_line], op'.content)
       /\ ( /\ CallStep("apply_deletion")
            /\ op'.content # <<>>
            /\ ~FullMarker(op'.content, W_deleted_line) )
          => /\ exc' = "none"
             /\ Ok(doc') = DeleteChar(doc, doc.cursor_line - 1)]_vars

----------------------------------------------------------------------------
(* The position codec *)

\* C12: decode(encode(line, column)) = (line, column) for every line >= 0 and
\* every column in 0..999; for a column >= 1000 the encoding is that of the
\* next line with the column less 1000, and decodes to that position.
C12_CodecRoundTrip ==
    /\ (codec.stage = "decoded" /\ codec.col <= 999)
           => codec.back = <<codec.line, codec.col>>
    /\ (codec.stage \in {"encoded", "decoded"} /\ codec.col >= 1000)
           => codec.pos = encode_position(codec.line + 1, codec.col - 1000)
    /\ (codec.stage = "decoded" /\ codec.col >= 1000)
           => codec.back = <<codec.line + 1, codec.col - 1000>>

C12_Witness ==
    /\ codec.stage = "decoded"
    /\ codec.line = 2 /\ codec.col = 999
    /\ codec.pos = 2999 /\ codec.back = <<2, 999>>

----------------------------------------------------------------------------
(* The position of an event *)

\* The position p of an event, 0 when it carries none.
PosOf(e) == IF "pos" \in DOMAIN e THEN e.pos ELSE 0

\* The buffer d with its cursor at the clamped (line, column).
Clamped(d, line, column) ==
    LET l == Max(1, Min(line, Len(d.lines)))
    IN  [d EXCEPT !.cursor_line = l,
                  !.cursor_col = Max(0, Min(column, Len(d.lines[l])))]

\* The step iterates a typed event.
TypedStep == pc = "loop" /\ n_events' = n_events + 1 /\ "type" \in DOMAIN event'

\* What the event's edit does to the buffer d.
EditOf(d, e) == Dispatch(d, states, e.type, Get(e, "content", <<>>))

----------------------------------------------------------------------------
(* The bulk markers *)

\* The count N of a marker.
CountOf(s) == IntOf(SubSeq(s, 2, DigitsEnd(s, 2) - 1))

EmptyLines(n) == [i \in 1..n |-> <<>>]

ScenarioC_doc == [lines |-> << <<"X">> >>, cursor_line |-> 1, cursor_col |-> 1]
ScenarioC_result ==
    [lines |-> << <<"X">>, <<>>, <<>>, <<>> >>, cursor_line |-> 2, cursor_col |-> 0]

\* C14: an insert of '[N new lines]' or '[N new line]', N >= 0, with the cursor
\* on line L puts exactly N empty lines right after line L, keeps every other
\* line and their order, raises the line count by N, inserts no bracket text
\* and moves the cursor to (L+1, 0); from ["X"] with the cursor at (1,1), N = 3
\* gives ["X","","",""] with the cursor at (2,0).
C14_BulkInsert ==
    [][(CallStep("apply_keystroke") /\ FullMarker(op'.content, W_new_line)) =>
           LET N == CountOf(op'.content)
               L == doc.cursor_line
           IN  /\ exc' = "none"
               /\ doc'.lines = SubSeq(doc.lines, 1, L) \o EmptyLines(N)
                               \o SubSeq(doc.lines, L + 1, Len(doc.lines))
               /\ Len(doc'.lines) = Len(doc.lines) + N
               /\ doc'.cursor_line = L + 1 /\ doc'.cursor_col = 0
               /\ (doc = ScenarioC_doc /\ op'.content = S_3_new_lines)
                      => doc' = ScenarioC_result]_vars

C14_Witness ==
    /\ initial_content = <<"X">>
    /\ op.name = "apply_keystroke" /\ op.content = S_3_new_lines
    /\ n_events = 2
    /\ doc = ScenarioC_result

\* C15: a delete of '[N deleted lines]' with the cursor on line L removes
\* exactly min(N, count(lines) - L + 1) consecutive lines from line L on, keeps
\* the lines before L and those after the removed range, in order, and, when
\* line L no longer exists afterwards, places the cursor on the last remaining
\* line at the column equal to that line's length.
C15_BulkDelete ==
    [][(CallStep("apply_deletion") /\ FullMarker(op'.content, W_deleted_line)) =>
           LET N == CountOf(op'.content)
               L == doc.cursor_line
               k == Min(N, Len(doc.lines) - L + 1)
           IN  /\ exc' = "none"
               /\ doc'.lines = SubSeq(doc.lines, 1, L - 1)
                               \o SubSeq(doc.lines, L + k, Len(doc.lines))
               /\ L > Len(doc'.lines) =>
                      /\ doc'.cursor_line \in DOMAIN doc'.lines
                      /\ doc'.cursor_line = Len(doc'.lines)
                      /\ doc'.cursor_col = Len(doc'.lines[doc'.cursor_line])]_vars

----------------------------------------------------------------------------
(* Line terminators and literal text *)

ScenarioB_seed == <<"a", "b">>
ScenarioB_doc == [lines |-> << <<"a", "b">> >>, cursor_line |-> 1, cursor_col |-> 1]
ScenarioB_lines == << <<"a">>, <<"b">> >>

\* C16: an insert of a line terminator with the cursor at (L, c) replaces line
\* L by its first c characters, puts the rest as a new line L+1, keeps all
\* other lines, raises the line count by 1 and moves the cursor to (L+1, 0);
\* from ["ab"] with the cursor at (1,1) the lines are ["a","b"], the text "a\nb".
C16_SplitAtCursor ==
    [][(CallStep("apply_keystroke") /\ op'.content \in {<<NL>>, <<CR, NL>>}) =>
           LET L == doc.cursor_line
               c == doc.cursor_col
               text == doc.lines[L]
           IN  /\ exc' = "none"
               /\ doc'.lines = SubSeq(doc.lines, 1, L - 1)
                               \o << SubSeq(text, 1, c), SubSeq(text, c + 1, Len(text)) >>
                               \o SubSeq(doc.lines, L + 1, Len(doc.lines))
               /\ Len(doc'.lines) = Len(doc.lines) + 1
               /\ doc'.cursor_line = L + 1 /\ doc'.cursor_col = 0
               /\ doc = ScenarioB_doc =>
                      doc'.lines = ScenarioB_lines /\ get_content(doc') = S_a_NL_b]_vars

C16_Witness ==
    /\ pc = "calls" /\ initial_content = ScenarioB_seed
    /\ op.name = "apply_keystroke" /\ op.content = <<NL>>
    /\ n_events = 2
    /\ doc = [lines |-> ScenarioB_lines, cursor_line |-> 2, cursor_col |-> 0]
    /\ get_content(doc) = S_a_NL_b

\* Literal text: not empty, no bulk marker, no line terminator.
LiteralText(content) ==
    /\ content \notin {<<>>, <<NL>>, <<CR, NL>>}
    /\ ~FullMarker(content, W_new_line)

\* The line text with content spliced in at column c.
Spliced(text, c, content) ==
    SubSeq(text, 1, c) \o content \o SubSeq(text, c + 1, Len(text))

ScenarioA_doc == [lines |-> << <<>> >>, cursor_line |-> 1, cursor_col |-> 0]
ScenarioA_result == [lines |-> << S_Hi >>, cursor_line |-> 1, cursor_col |-> 2]

\* C17: an insert of literal text with the cursor at (L, c) splices the content
\* into line L at column c, advances the cursor column by length(content) and
\* keeps the cursor line, the line count and every other line; "Hi" into the
\* empty buffer at (1,0) gives the text "Hi" and the cursor (1,2).
C17_LiteralInsert ==
    [][(CallStep("apply_keystroke") /\ LiteralText(op'.content)) =>
           LET L == doc.cursor_line
               c == doc.cursor_col
           IN  /\ exc' = "none"
               /\ doc'.lines = [doc.lines EXCEPT
                                    ![L] = Spliced(doc.lines[L], c, op'.content)]
               /\ doc'.cursor_line = L
               /\ doc'.cursor_col = c + Len(op'.content)
               /\ (doc = ScenarioA_doc /\ op'.content = S_Hi) =>
                      doc' = ScenarioA_result /\ get_content(doc') = S_Hi]_vars

\* A deletion that is neither empty nor a bulk marker.
PlainDeletion(content) ==
    content # <<>> /\ ~FullMarker(content, W_deleted_line)

\* C18: a delete with non-empty, non-bulk content and the cursor at (L, 0),
\* L > 1, appends line L to line L-1, removes line L, keeps all other lines
\* and moves the cursor to (L-1, length of line L-1 before the join); with the
\* cursor at (1, 0) it changes neither the lines nor the cursor.
C18_DeleteAtLineStart ==
    [][(/\ CallStep("apply_deletion") /\ PlainDeletion(op'.content)
        /\ doc.cursor_col = 0) =>
           LET L == doc.cursor_line
           IN  /\ exc' = "none"
               /\ L > 1 =>
                      /\ doc'.lines = SubSeq(doc.lines, 1, L - 2)
                                      \o << doc.lines[L - 1] \o doc.lines[L] >>
                                      \o SubSeq(doc.lines, L + 1, Len(doc.lines))
                      /\ Len(doc'.lines) = Len(doc.lines) - 1
                      /\ doc'.cursor_line = L - 1
                      /\ doc'.cursor_col = Len(doc.lines[L - 1])
               /\ L = 1 => doc' = doc]_vars

----------------------------------------------------------------------------
(* Events of other types *)

\* The event has a type, and it is none of keystroke, deletion,
\* snapshot-marker and end-marker.
UnknownType(e) == "type" \in DOMAIN e /\ e.type \notin {"k", "d", "s", "end"}

\* C19: an event of any other type leaves the buffer's lines and every
\* captured checkpoint as they are and captures no checkpoint; the cursor
\* moves only through the event's position, so without one nothing changes.
C19_UnknownTypeIgnored ==
    [][(pc = "loop" /\ n_events' = n_events + 1 /\ UnknownType(event')) =>
           /\ doc'.lines = doc.lines
           /\ DOMAIN states' = DOMAIN states
           /\ \A n \in DOMAIN states : Deref(states'[n], doc') = Deref(states[n], doc)
           /\ PosOf(event') = 0 => doc' = doc]_vars

C19_Witness ==
    /\ pc = "loop"
    /\ event = [type |-> "c", pos |-> encode_position(2, 0)]
    /\ DOMAIN states = {"initial", "pre_save"}
    /\ Len(doc.lines) = 2 /\ doc.cursor_line = 2
    /\ get_content(states["pre_save"].doc) # get_content(states["initial"].doc)

----------------------------------------------------------------------------
(* What a checkpoint holds *)

\* C20: a checkpoint is a copy of the whole buffer at the moment of capture:
\* for 'pre_save' and for 'final', captured by an end-marker or by the
\* fallback after the loop, its lines and its cursor (line, column) equal the
\* live buffer's lines and cursor at that moment.
C20_CheckpointIsWholeBuffer ==
    [][/\ (pc = "loop" /\ pc' = "loop" /\ SnapshotMarker(event')
           /\ n_events' = n_events + 1)
          => Deref(states'["pre_save"], doc') = doc'
       /\ (pc = "loop" /\ pc' = "loop" /\ EndMarker(event')
           /\ n_events' = n_events + 1)
          => Deref(states'["final"], doc') = doc'
       /\ (pc = "loop" /\ pc' = "returned" /\ "final" \notin DOMAIN states)
          => Deref(states'["final"], doc') = doc']_vars

----------------------------------------------------------------------------
(* Lines and the text *)

\* No line of the buffer d holds a line terminator.
NoTerminatorInLines(d) ==
    \A i \in DOMAIN d.lines : \A j \in DOMAIN d.lines[i] : d.lines[i][j] # NL

\* C21: in every buffer state reached by keystrokes and deletions, literal
\* content of several characters included, no line holds a line terminator,
\* and splitting content() on the terminator gives the buffer's lines back.
C21_LinesHoldNoTerminator ==
    pc = "calls" =>
        /\ NoTerminatorInLines(doc)
        /\ SplitNL(get_content(doc)) = doc.lines

----------------------------------------------------------------------------
(* Insert, then delete *)

\* One literal character or one line terminator.
OneCharacter(content) ==
    \/ content \in {<<NL>>, <<CR, NL>>}
    \/ Len(content) = 1

\* The call before this step was an insert of one character into a buffer
\* that satisfied the cursor invariant, and this step is a deletion with
\* non-empty, non-bulk content.
InsertThenDelete ==
    /\ pc = "calls" /\ n_events' = n_events + 1
    /\ op.name = "apply_keystroke" /\ OneCharacter(op.content)
    /\ CursorInBounds(op.before)
    /\ op'.name = "apply_deletion" /\ PlainDeletion(op'.content)

\* C22: from a buffer that satisfies the cursor invariant, the insert of one
\* literal character or one line terminator, followed at once by one deletion
\* with non-empty, non-bulk content, gives back the original lines and cursor.
C22_InsertThenDeleteIsIdentity ==
    [][InsertThenDelete => exc' = "none" /\ doc' = op.before]_vars

====
